---- MODULE Spec2Model ----
(***************************************************************************)
(* Model of nycParking: the time formatter of ViolationsDisplay, the       *)
(* record mapping, the paging and the borough filter of the violations     *)
(* route, and the handlers of the watch-list API over the table            *)
(* PlateWatch.  Strings are sequences of one-character strings, so         *)
(* that substring, toUpperCase, trim, parseInt and number formatting are   *)
(* computed character by character as the JavaScript runtime does.         *)
(***************************************************************************)
EXTENDS Integers, Sequences, FiniteSets, Bags, TLC

VARIABLES timeStr, timeOut, timePc,
          raw, normalized, normPc,
          req, pc, apiQuery, dataset, upstream, rawViolations, mapped,
          violations, response,
          rows, nextId, handlers, lastResponse,
          form, isLoading, error, searchResult, searches

timeVars == <<timeStr, timeOut, timePc>>
normVars == <<raw, normalized, normPc>>
searchVars ==
    <<req, pc, apiQuery, dataset, upstream, rawViolations, mapped, violations,
      response>>
watchVars == <<rows, nextId, handlers, lastResponse>>
pageVars == <<form, isLoading, error, searchResult, searches>>
vars == <<timeStr, timeOut, timePc, raw, normalized, normPc,
          req, pc, apiQuery, dataset, upstream, rawViolations, mapped,
          violations, response, rows, nextId, handlers, lastResponse,
          form, isLoading, error, searchResult, searches>>

(***************************************************************************)
(* Bounds                                                                  *)
(***************************************************************************)
MaxTokLen == 5
MaxPresent == 2
MaxRecords == 3
MaxInFlight == 2
MaxIds == 2

(***************************************************************************)
(* Program constants                                                       *)
(***************************************************************************)
\* The default of the limit parameter, as a number
FullPage == 50

(***************************************************************************)
(* Characters and strings                                                  *)
(***************************************************************************)
DigitChars == <<"0", "1", "2", "3", "4", "5", "6", "7", "8", "9">>
Digits == {DigitChars[i] : i \in 1..10}
DigitVal(c) == (CHOOSE i \in 1..10 : DigitChars[i] = c) - 1

LowerChars == <<"a", "b", "c", "d", "e", "f", "g", "h", "i", "j", "k", "l", "m",
                "n", "o", "p", "q", "r", "s", "t", "u", "v", "w", "x", "y", "z">>
UpperChars == <<"A", "B", "C", "D", "E", "F", "G", "H", "I", "J", "K", "L", "M",
                "N", "O", "P", "Q", "R", "S", "T", "U", "V", "W", "X", "Y", "Z">>

UpperOf == [c \in {LowerChars[i] : i \in 1..26} |->
                UpperChars[CHOOSE i \in 1..26 : LowerChars[i] = c]]

ToUpperChar(c) == IF c \in DOMAIN UpperOf THEN UpperOf[c] ELSE c

\* String.prototype.toUpperCase
ToUpperCase(s) == [i \in 1..Len(s) |-> ToUpperChar(s[i])]

IsSpace(c) == c = " "

\* String.prototype.trim
RECURSIVE TrimStart(_)
TrimStart(s) == IF s # <<>> /\ IsSpace(Head(s)) THEN TrimStart(Tail(s)) ELSE s

RECURSIVE TrimEnd(_)
TrimEnd(s) ==
    IF s # <<>> /\ IsSpace(s[Len(s)]) THEN TrimEnd(SubSeq(s, 1, Len(s) - 1)) ELSE s

Trim(s) == TrimEnd(TrimStart(s))

Min(a, b) == IF a <= b THEN a ELSE b

\* String.prototype.substring(start, end), 0-based, end exclusive, clamped
Substring(s, start, end) == SubSeq(s, Min(start, Len(s)) + 1, Min(end, Len(s)))

\* Number.prototype.toString for integers
RECURSIVE NatToStr(_)
NatToStr(n) ==
    IF n < 10 THEN <<DigitChars[n + 1]>>
    ELSE NatToStr(n \div 10) \o <<DigitChars[(n % 10) + 1]>>

NumToStr(n) == IF n < 0 THEN <<"-">> \o NatToStr(-n) ELSE NatToStr(n)

(***************************************************************************)
(* parseInt(string) without a radix: leading white space is skipped, one   *)
(* sign is accepted, a 0x prefix selects radix 16, digits are read up to   *)
(* the first character that is not one, and NaN is the result when no      *)
(* digit was read.                                                         *)
(***************************************************************************)
NaN == [nan |-> TRUE, val |-> 0]
Number(n) == [nan |-> FALSE, val |-> n]

HexChars == <<"a", "b", "c", "d", "e", "f">>
IsHexDigit(c) == c \in Digits \/ \E i \in 1..6 : ToUpperChar(HexChars[i]) = ToUpperChar(c)
HexVal(c) ==
    IF c \in Digits THEN DigitVal(c)
    ELSE 9 + (CHOOSE i \in 1..6 : ToUpperChar(HexChars[i]) = ToUpperChar(c))

IsRadixDigit(c, radix) == IF radix = 16 THEN IsHexDigit(c) ELSE c \in Digits

RECURSIVE ReadDigits(_, _, _)
ReadDigits(s, radix, acc) ==
    IF s # <<>> /\ IsRadixDigit(Head(s), radix)
    THEN ReadDigits(Tail(s), radix, acc * radix + HexVal(Head(s)))
    ELSE acc

ParseUnsigned(s) ==
    LET hex == Len(s) >= 2 /\ s[1] = "0" /\ s[2] \in {"x", "X"}
        body == IF hex THEN SubSeq(s, 3, Len(s)) ELSE s
        radix == IF hex THEN 16 ELSE 10
    IN  IF body = <<>> \/ ~IsRadixDigit(Head(body), radix) THEN NaN
        ELSE Number(ReadDigits(body, radix, 0))

ParseInt(str) ==
    LET s == TrimStart(str)
        signed == s # <<>> /\ Head(s) \in {"-", "+"}
        mag == ParseUnsigned(IF signed THEN Tail(s) ELSE s)
    IN  IF mag.nan THEN NaN
        ELSE IF signed /\ Head(s) = "-" THEN Number(-mag.val) ELSE mag

\* The % operator: the result takes the sign of the dividend; NaN % n is NaN
JsMod(a, n) ==
    IF a.nan THEN NaN
    ELSE IF a.val >= 0 THEN Number(a.val % n) ELSE Number(-((-a.val) % n))

\* a >= n on numbers: false for NaN
JsGeq(a, n) == ~a.nan /\ a.val >= n

\* x || d on numbers: NaN and 0 are falsy
JsOrNum(a, d) == IF a.nan \/ a.val = 0 THEN Number(d) ELSE a

(***************************************************************************)
(* ViolationsDisplay.formatTime                                            *)
(***************************************************************************)
\* Variant of AmPm that tests hours > 12
AmPmStrict(hours) ==
    IF ~hours.nan /\ hours.val > 12 THEN <<"P", "M">> ELSE <<"A", "M">>

AmPm(hours) == IF JsGeq(hours, 12) THEN <<"P", "M">> ELSE <<"A", "M">>

DisplayHours(hours) == JsOrNum(JsMod(hours, 12), 12)

FormatTime(t) ==
    IF t = <<>> \/ Len(t) < 4 THEN t
    ELSE LET hours == ParseInt(Substring(t, 0, 2))
             minutes == Substring(t, 2, 4)
             ampm == AmPm(hours)
             displayHours == DisplayHours(hours)
         IN  NumToStr(displayHours.val) \o <<":">> \o minutes
                 \o <<" ">> \o ampm

(***************************************************************************)
(* JavaScript values as they occur in the JSON of the upstream API and in  *)
(* the query parameters: undefined (an absent property), null, strings     *)
(* and integers.                                                           *)
(***************************************************************************)
Undefined == [t |-> "undefined", s |-> <<>>, n |-> 0]
Null == [t |-> "null", s |-> <<>>, n |-> 0]
Str(s) == [t |-> "string", s |-> s, n |-> 0]
Num(n) == [t |-> "number", s |-> <<>>, n |-> n]

IsString(v) == v.t = "string"

\* ToBoolean
Truthy(v) ==
    CASE v.t = "string" -> v.s # <<>>
      [] v.t = "number" -> v.n # 0
      [] OTHER -> FALSE

\* a || b
Or(a, b) == IF Truthy(a) THEN a ELSE b

\* v?.toString()
OptToString(v) ==
    CASE v.t \in {"undefined", "null"} -> Undefined
      [] v.t = "number" -> Str(NumToStr(v.n))
      [] OTHER -> v

\* v?.toUpperCase() on a string or an absent value
OptToUpperCase(v) ==
    IF v.t \in {"undefined", "null"} THEN Undefined ELSE Str(ToUpperCase(v.s))

\* raw.field: undefined when the object has no such property
Get(r, f) == IF f \in DOMAIN r THEN r[f] ELSE Undefined

(***************************************************************************)
(* The record mapping of the violations route (rawViolations.map)          *)
(***************************************************************************)
\* The ten attributes resolved from the raw record: <<primary, secondary>>
Aliases ==
    [summons_number |-> <<"summons_number", "summonsNumber">>,
     plate_id |-> <<"plate_id", "plate">>,
     registration_state |-> <<"registration_state", "state">>,
     plate_type |-> <<"plate_type", "license_type">>,
     issue_date |-> <<"issue_date", "issueDate">>,
     violation_code |-> <<"violation_code", "violation">>,
     violation_time |-> <<"violation_time", "violationTime">>,
     violation_precinct |-> <<"violation_precinct", "precinct">>,
     violation_county |-> <<"violation_county", "county">>,
     issuing_agency |-> <<"issuing_agency", "issuingAgency">>]

AliasedAttributes == DOMAIN Aliases

\* interface ParkingViolation
ParkingViolationFields ==
    {"summons_number", "plate_id", "registration_state", "plate_type",
     "issue_date", "violation_code", "vehicle_body_type", "vehicle_make",
     "issuing_agency", "street_code1", "street_code2", "street_code3",
     "vehicle_expiration_date", "violation_location", "violation_precinct",
     "issuer_precinct", "issuer_code", "issuer_command", "issuer_squad",
     "violation_time", "time_first_observed", "violation_county",
     "violation_in_front_of_or_opposite", "house_number", "street_name",
     "intersecting_street", "date_first_observed", "law_section",
     "sub_division", "violation_legal_code", "days_parking_in_effect",
     "from_hours_in_effect", "to_hours_in_effect", "vehicle_color",
     "unregistered_vehicle", "vehicle_year", "meter_number", "feet_from_curb",
     "violation_post_code", "violation_description",
     "no_standing_or_stopping_violation", "hydrant_violation",
     "double_parking_violation"}

\* The literal ''
EmptyString == Str(<<>>)

\* Variant of Resolve without the final || ''
ResolveNoDefault(r, primary, secondary) ==
    Or(OptToString(Get(r, primary)), OptToString(Get(r, secondary)))

\* Variant of Resolve that tries the secondary alias first
ResolveSecondaryFirst(r, primary, secondary) ==
    Or(Or(OptToString(Get(r, secondary)), OptToString(Get(r, primary))), EmptyString)

\* Variant of Resolve that reads the primary alias only
ResolvePrimaryOnly(r, primary, secondary) ==
    Or(OptToString(Get(r, primary)), EmptyString)

\* Variant of Resolve that reads the secondary alias only
ResolveSecondaryOnly(r, primary, secondary) ==
    Or(OptToString(Get(r, secondary)), EmptyString)

\* raw.primary?.toString() || raw.secondary?.toString() || ''
Resolve(r, primary, secondary) ==
    Or(Or(OptToString(Get(r, primary)), OptToString(Get(r, secondary))), EmptyString)

\* Values that inherit a callable toString
HasToString(v) == v.t \in {"string", "number"}

\* Variant of ToStringRaises for v.toString() without the optional chain
ToStringRaisesUnchained(v) == v.t \in {"undefined", "null"} \/ ~HasToString(v)

\* v?.toString() raises a TypeError: undefined and null end the chain before
\* the call, any other value must have a callable toString
ToStringRaises(v) == v.t \notin {"undefined", "null"} /\ ~HasToString(v)

\* raw.primary?.toString() || raw.secondary?.toString() || '' raises: the
\* right operand of || is evaluated only when the left one is falsy
ResolveRaises(r, primary, secondary) ==
    \/ ToStringRaises(Get(r, primary))
    \/ /\ ~Truthy(OptToString(Get(r, primary)))
       /\ ToStringRaises(Get(r, secondary))

\* The callback of rawViolations.map raises
NormalizeRaises(r) ==
    \E a \in AliasedAttributes : ResolveRaises(r, Aliases[a][1], Aliases[a][2])

\* Variant of Normalize that reads vehicle_make from the raw record
NormalizeReadsVehicleMake(r) ==
    [summons_number |-> Resolve(r, "summons_number", "summonsNumber"),
     plate_id |-> Resolve(r, "plate_id", "plate"),
     registration_state |-> Resolve(r, "registration_state", "state"),
     plate_type |-> Resolve(r, "plate_type", "license_type"),
     issue_date |-> Resolve(r, "issue_date", "issueDate"),
     violation_code |-> Resolve(r, "violation_code", "violation"),
     violation_time |-> Resolve(r, "violation_time", "violationTime"),
     violation_precinct |-> Resolve(r, "violation_precinct", "precinct"),
     violation_county |-> Resolve(r, "violation_county", "county"),
     issuing_agency |-> Resolve(r, "issuing_agency", "issuingAgency"),
     vehicle_body_type |-> EmptyString,
     vehicle_make |-> Resolve(r, "vehicle_make", "vehicle_make"),
     street_code1 |-> EmptyString,
     street_code2 |-> EmptyString,
     street_code3 |-> EmptyString,
     vehicle_expiration_date |-> EmptyString,
     violation_location |-> EmptyString,
     issuer_precinct |-> EmptyString,
     issuer_code |-> EmptyString,
     issuer_command |-> EmptyString,
     issuer_squad |-> EmptyString,
     time_first_observed |-> EmptyString,
     violation_in_front_of_or_opposite |-> EmptyString,
     house_number |-> EmptyString,
     street_name |-> EmptyString,
     intersecting_street |-> EmptyString,
     date_first_observed |-> EmptyString,
     law_section |-> EmptyString,
     sub_division |-> EmptyString,
     violation_legal_code |-> EmptyString,
     days_parking_in_effect |-> EmptyString,
     from_hours_in_effect |-> EmptyString,
     to_hours_in_effect |-> EmptyString,
     vehicle_color |-> EmptyString,
     unregistered_vehicle |-> EmptyString,
     vehicle_year |-> EmptyString,
     meter_number |-> EmptyString,
     feet_from_curb |-> EmptyString,
     violation_post_code |-> EmptyString,
     violation_description |-> EmptyString,
     no_standing_or_stopping_violation |-> EmptyString,
     hydrant_violation |-> EmptyString,
     double_parking_violation |-> EmptyString]

\* The object literal built by the callback of rawViolations.map
Normalize(r) ==
    [summons_number |-> Resolve(r, "summons_number", "summonsNumber"),
     plate_id |-> Resolve(r, "plate_id", "plate"),
     registration_state |-> Resolve(r, "registration_state", "state"),
     plate_type |-> Resolve(r, "plate_type", "license_type"),
     issue_date |-> Resolve(r, "issue_date", "issueDate"),
     violation_code |-> Resolve(r, "violation_code", "violation"),
     violation_time |-> Resolve(r, "violation_time", "violationTime"),
     violation_precinct |-> Resolve(r, "violation_precinct", "precinct"),
     violation_county |-> Resolve(r, "violation_county", "county"),
     issuing_agency |-> Resolve(r, "issuing_agency", "issuingAgency"),
     vehicle_body_type |-> EmptyString,
     vehicle_make |-> EmptyString,
     street_code1 |-> EmptyString,
     street_code2 |-> EmptyString,
     street_code3 |-> EmptyString,
     vehicle_expiration_date |-> EmptyString,
     violation_location |-> EmptyString,
     issuer_precinct |-> EmptyString,
     issuer_code |-> EmptyString,
     issuer_command |-> EmptyString,
     issuer_squad |-> EmptyString,
     time_first_observed |-> EmptyString,
     violation_in_front_of_or_opposite |-> EmptyString,
     house_number |-> EmptyString,
     street_name |-> EmptyString,
     intersecting_street |-> EmptyString,
     date_first_observed |-> EmptyString,
     law_section |-> EmptyString,
     sub_division |-> EmptyString,
     violation_legal_code |-> EmptyString,
     days_parking_in_effect |-> EmptyString,
     from_hours_in_effect |-> EmptyString,
     to_hours_in_effect |-> EmptyString,
     vehicle_color |-> EmptyString,
     unregistered_vehicle |-> EmptyString,
     vehicle_year |-> EmptyString,
     meter_number |-> EmptyString,
     feet_from_curb |-> EmptyString,
     violation_post_code |-> EmptyString,
     violation_description |-> EmptyString,
     no_standing_or_stopping_violation |-> EmptyString,
     hydrant_violation |-> EmptyString,
     double_parking_violation |-> EmptyString]

\* Variant of NormalizeAll that leaves out the records mapped to no county
NormalizeAllDropsCountyless(raws) ==
    SelectSeq([i \in 1..Len(raws) |-> Normalize(raws[i])],
              LAMBDA v : v["violation_county"] # EmptyString)

\* rawViolations.map
NormalizeAll(raws) == [i \in 1..Len(raws) |-> Normalize(raws[i])]

(***************************************************************************)
(* The borough filter of the violations route                              *)
(***************************************************************************)
MANHATTAN == <<"M", "A", "N", "H", "A", "T", "T", "A", "N">>
BROOKLYN == <<"B", "R", "O", "O", "K", "L", "Y", "N">>
QUEENS == <<"Q", "U", "E", "E", "N", "S">>
BRONX == <<"B", "R", "O", "N", "X">>
STATEN_ISLAND == <<"S", "T", "A", "T", "E", "N", " ", "I", "S", "L", "A", "N", "D">>
ALL_BOROUGHS == <<"A", "L", "L", " ", "B", "O", "R", "O", "U", "G", "H", "S">>

BoroughNames == {MANHATTAN, BROOKLYN, QUEENS, BRONX, STATEN_ISLAND}

\* Variant of boroughToCounty that lists the code K under QUEENS as well
boroughToCountyKingsInQueens ==
    [b \in BoroughNames |->
        CASE b = MANHATTAN -> <<(<<"N", "Y">>), (<<"M", "N">>)>>
          [] b = BROOKLYN -> <<(<<"K">>), (<<"B", "K">>)>>
          [] b = QUEENS -> <<(<<"Q">>), (<<"Q", "N">>), QUEENS, (<<"K">>)>>
          [] b = BRONX -> <<(<<"B", "X">>)>>
          [] b = STATEN_ISLAND -> <<(<<"R">>), (<<"S", "T">>)>>]

\* const boroughToCounty: { [key: string]: string[] }
boroughToCounty ==
    [b \in BoroughNames |->
        CASE b = MANHATTAN -> <<(<<"N", "Y">>), (<<"M", "N">>)>>
          [] b = BROOKLYN -> <<(<<"K">>), (<<"B", "K">>)>>
          [] b = QUEENS -> <<(<<"Q">>), (<<"Q", "N">>), QUEENS>>
          [] b = BRONX -> <<(<<"B", "X">>)>>
          [] b = STATEN_ISLAND -> <<(<<"R">>), (<<"S", "T">>)>>]

\* Array.prototype.includes
Includes(arr, x) == \E i \in 1..Len(arr) : arr[i] = x

\* Variant of BoroughSpecified that compares the sentinel without toUpperCase
BoroughSpecifiedExact(borough) ==
    /\ Truthy(borough)
    /\ Trim(borough.s) # <<>>
    /\ borough.s # ALL_BOROUGHS

\* borough && borough.trim() !== '' && borough.toUpperCase() !== 'ALL BOROUGHS'
BoroughSpecified(borough) ==
    /\ Truthy(borough)
    /\ Trim(borough.s) # <<>>
    /\ ToUpperCase(borough.s) # ALL_BOROUGHS

\* Variant of KeepViolation that compares the county code as it is spelled
KeepViolationCaseSensitive(violation, borough) ==
    LET county == Get(violation, "violation_county")
        searchBorough == ToUpperCase(borough.s)
    IN  /\ Truthy(county)
        /\ searchBorough \in DOMAIN boroughToCounty
        /\ Includes(boroughToCounty[searchBorough], county.s)

\* The callback of violations.filter
KeepViolation(violation, borough) ==
    LET county == OptToUpperCase(Get(violation, "violation_county"))
        searchBorough == ToUpperCase(borough.s)
    IN  /\ Truthy(county)
        /\ searchBorough \in DOMAIN boroughToCounty
        /\ Includes(boroughToCounty[searchBorough], county.s)

Reverse(s) == [i \in 1..Len(s) |-> s[Len(s) + 1 - i]]

\* Variant of Filter that returns the kept records last to first
FilterReversed(records, borough) ==
    Reverse(SelectSeq(records, LAMBDA v : KeepViolation(v, borough)))

\* Array.prototype.filter
Filter(records, borough) ==
    SelectSeq(records, LAMBDA v : KeepViolation(v, borough))

\* Variant of FilterByBorough that skips the filter for an unknown borough
FilterByBoroughLenient(records, borough) ==
    IF BoroughSpecified(borough) /\ ToUpperCase(borough.s) \in DOMAIN boroughToCounty
    THEN Filter(records, borough)
    ELSE records

FilterByBorough(records, borough) ==
    IF BoroughSpecified(borough) THEN Filter(records, borough) ELSE records

(***************************************************************************)
(* The violations route: GET /api/violations                               *)
(***************************************************************************)
NoResponse ==
    [status |-> 0, keys |-> {}, error |-> "", violations |-> <<>>,
     totalCount |-> 0, licensePlate |-> <<>>]

BadRequest ==
    [status |-> 400, keys |-> {"error"},
     error |-> "Either license plate or ticket number is required",
     violations |-> <<>>, totalCount |-> 0, licensePlate |-> <<>>]

UpstreamError ==
    [status |-> 500, keys |-> {"error", "details", "violations", "totalCount"},
     error |-> "Failed to fetch violations from NYC Open Data",
     violations |-> <<>>, totalCount |-> 0, licensePlate |-> <<>>]

CaughtError ==
    [status |-> 500, keys |-> {"error", "details"},
     error |-> "Failed to fetch violations",
     violations |-> <<>>, totalCount |-> 0, licensePlate |-> <<>>]

\* searchParams.get(name) || fallback
ParamOr(v, fallback) == IF Truthy(v) THEN v.s ELSE fallback

\* Variant of BuildQuery that selects by plate when both keys are given
BuildQueryPlateFirst(r) ==
    LET state == ParamOr(r.state, <<"N", "Y">>)
        limit == ParamOr(r.limit, <<"5", "0">>)
        offset == ParamOr(r.offset, <<"0">>)
        key == IF Truthy(r.licensePlate)
               THEN << <<"plate", ToUpperCase(r.licensePlate.s)>>,
                       <<"registration_state", ToUpperCase(state)>> >>
               ELSE IF Truthy(r.ticketNumber)
               THEN << <<"summons_number", r.ticketNumber.s>> >>
               ELSE <<>>
    IN  key \o << <<"$limit", limit>>, <<"$offset", offset>>,
                  <<"$order", <<"i", "s", "s", "u", "e", "_", "d", "a", "t", "e",
                                " ", "D", "E", "S", "C">> >> >>

\* The URLSearchParams sent upstream, in append order
BuildQuery(r) ==
    LET state == ParamOr(r.state, <<"N", "Y">>)
        limit == ParamOr(r.limit, <<"5", "0">>)
        offset == ParamOr(r.offset, <<"0">>)
        key == IF Truthy(r.ticketNumber)
               THEN << <<"summons_number", r.ticketNumber.s>> >>
               ELSE IF Truthy(r.licensePlate)
               THEN << <<"plate", ToUpperCase(r.licensePlate.s)>>,
                       <<"registration_state", ToUpperCase(state)>> >>
               ELSE <<>>
    IN  key \o << <<"$limit", limit>>, <<"$offset", offset>>,
                  <<"$order", <<"i", "s", "s", "u", "e", "_", "d", "a", "t", "e",
                                " ", "D", "E", "S", "C">> >> >>

\* result.licensePlate
ResultKey(r) ==
    IF Truthy(r.licensePlate) THEN ToUpperCase(r.licensePlate.s)
    ELSE ParamOr(r.ticketNumber, <<>>)

SearchResult(r, vs) ==
    [status |-> 200, keys |-> {"violations", "totalCount", "licensePlate"},
     error |-> "", violations |-> vs, totalCount |-> Len(vs),
     licensePlate |-> ResultKey(r)]

(***************************************************************************)
(* The upstream endpoint as the query addresses it                         *)
(***************************************************************************)
\* The value of a parameter of the query
QueryValue(q, key) == q[CHOOSE i \in 1..Len(q) : q[i][1] = key][2]

\* The number a paging parameter of the query spells
QueryNumber(q, key) == ParseInt(QueryValue(q, key))

\* The rows the endpoint returns of the rows matching the query, in $order:
\* $limit rows from row $offset on
Page(matching, limit, offset) ==
    SubSeq(matching, offset + 1, Min(offset + limit, Len(matching)))

(***************************************************************************)
(* Inputs                                                                  *)
(***************************************************************************)
SeqsUpTo(S, n) == UNION {[1..k -> S] : k \in 0..n}

\* Time tokens: every four-digit token, and every token of up to MaxTokLen
\* characters over digits, a letter, a colon, a sign and a blank
TokenChars == {"0", "3", "7", "A", ":", "-", " "}
FourDigitTokens == [1..4 -> Digits]
Tokens == FourDigitTokens \cup SeqsUpTo(TokenChars, MaxTokLen)

\* Raw records for the mapping: at most MaxPresent properties are present
RawFields ==
    UNION {{Aliases[a][1], Aliases[a][2]} : a \in AliasedAttributes}
        \cup {"vehicle_make"}
RawValues == {Null, Str(<<>>), Str(<<"K">>), Num(5), Num(0)}
EmptyRaw == [f \in RawFields |-> Undefined]

RECURSIVE RawsUpTo(_)
RawsUpTo(k) ==
    IF k = 0 THEN {EmptyRaw}
    ELSE LET prev == RawsUpTo(k - 1)
         IN  prev \cup {[r EXCEPT ![f] = v] : r \in prev, f \in RawFields, v \in RawValues}

NormRaws == RawsUpTo(MaxPresent)

\* Raw records for a search: the county under either alias, in several
\* spellings, empty, or absent
With(f, v) == [g \in {f} |-> v]
SearchRaws ==
    {With("county", Str(<<"K">>)), With("county", Str(<<"N", "Y">>)),
     With("county", Str(<<"Q">>)), With("violation_county", Str(<<"q", "n">>)),
     With("violation_county", Str(<<"Q", "u", "e", "e", "n", "s">>)),
     With("county", Str(<<"B", "X">>)), With("violation_county", Str(<<>>))}

\* The arrays of up to MaxRecords rows
RawArrays == SeqsUpTo(SearchRaws, MaxRecords)

\* One row more than a page of the default $limit holds: the newest rows
\* with county K, the oldest with county Q
LongDataset ==
    [i \in 1..(FullPage + 1) |->
        IF i <= FullPage THEN With("county", Str(<<"K">>))
        ELSE With("county", Str(<<"Q">>))]

\* The rows of the upstream dataset that can match a query, newest first
Datasets == RawArrays \cup {LongDataset}

BoroughParams ==
    {Null, Str(<<>>), Str(<<" ">>), Str(ALL_BOROUGHS),
     Str(<<"a", "l", "l", " ", "b", "o", "r", "o", "u", "g", "h", "s">>),
     Str(QUEENS), Str(<<"q", "u", "e", "e", "n", "s">>),
     Str(<<"B", "r", "o", "o", "k", "l", "y", "n">>), Str(MANHATTAN),
     Str(<<"B", "r", "o", "n", "x">>),
     Str(<<"S", "t", "a", "t", "e", "n", " ", "I", "s", "l", "a", "n", "d">>),
     Str(<<"A", "T", "L", "A", "N", "T", "I", "S">>),
     Str(<<" ", "Q", "u", "e", "e", "n", "s">>)}

PlateParam == Str(<<"a", "b", "c", "1">>)
TicketParam == Str(<<"1", "2", "3">>)
StateParam == Str(<<"n", "j">>)
LimitParam == Str(<<"2">>)
OffsetParam == Str(<<"1">>)

Requests ==
    [licensePlate : {Null, Str(<<>>), PlateParam},
     ticketNumber : {Null, Str(<<>>), TicketParam},
     state : {Null},
     borough : {Null}, limit : {Null}, offset : {Null}]
    \cup
    [licensePlate : {PlateParam}, ticketNumber : {Null},
     state : {Str(<<>>), StateParam},
     borough : {Null}, limit : {Null}, offset : {Null}]
    \cup
    [licensePlate : {PlateParam}, ticketNumber : {Null},
     state : {Null},
     borough : BoroughParams, limit : {Null}, offset : {Null}]
    \cup
    [licensePlate : {PlateParam}, ticketNumber : {Null},
     state : {Null},
     borough : {Str(QUEENS)}, limit : {LimitParam}, offset : {OffsetParam}]

NoRequest ==
    [licensePlate |-> Null, ticketNumber |-> Null, state |-> Null,
     borough |-> Null, limit |-> Null, offset |-> Null]

(***************************************************************************)
(* The watch-list API: POST /api/user/plates, DELETE and PATCH             *)
(* /api/user/plates/[id], over the table PlateWatch                        *)
(***************************************************************************)
Users == {"u1", "u2"}

\* session?.user?.id of a request without a session
NoSession == ""
Sessions == Users \cup {NoSession}

\* The bodies of POST: one plate and state in either letter case, and bodies
\* without a plate number or without a state
PlateBody == Str(<<"a", "b">>)
StateBody == Str(<<"n", "y">>)
PostBody(plateNumber, state) ==
    [plateNumber |-> plateNumber, state |-> state,
     borough |-> Undefined, nickname |-> Undefined]
PostBodies ==
    {PostBody(PlateBody, StateBody),
     PostBody(Str(ToUpperCase(PlateBody.s)), Str(ToUpperCase(StateBody.s))),
     PostBody(Undefined, StateBody),
     PostBody(PlateBody, Undefined)}

\* The ids a DELETE or a PATCH can name
Ids == 1..MaxIds

\* The locals of a handler suspended at the await of its write
Handler(op, userId) ==
    [op |-> op, userId |-> userId, plateNumber |-> <<>>, state |-> <<>>,
     borough |-> Null, nickname |-> Null, id |-> 0, isActive |-> FALSE]

\* The error messages of the watch-list handlers
Unauthorized == "Unauthorized"
PlateAndStateRequired == "Plate number and state are required"
AlreadyMonitored == "This plate is already being monitored"
FailedToAdd == "Failed to add plate"
PlateNotFound == "Plate not found"
FailedToRemove == "Failed to remove plate"
FailedToUpdate == "Failed to update plate"

\* NextResponse.json(..., { status }) with the error of the body, sent after
\* the handler has awaited queries calls of prisma.plateWatch
Responded(op, status, message, queries) ==
    [op |-> op, status |-> status, error |-> message, plates |-> <<>>,
     queries |-> queries]
NoWatchResponse == Responded("none", 0, "", 0)

\* The suspended handlers with one more, and without one
Suspend(h) == handlers (+) SetToBag({h})
Resume(h) == handlers (-) SetToBag({h})

\* The rows of a user with a plate and a state: the compound unique key
\* userId_plateNumber_state
RowsOfKey(table, userId, plateNumber, state) ==
    {r \in table : r.userId = userId /\ r.plateNumber = plateNumber /\ r.state = state}

\* prisma.plateWatch.findFirst({ where: { id, userId } })
RowsOfIdAndUser(table, id, userId) ==
    {r \in table : r.id = id /\ r.userId = userId}

\* The rows with an id
RowsOfId(table, id) == {r \in table : r.id = id}

\* The row prisma.plateWatch.create inserts; isActive takes the default of
\* the column
NewRow(h, id, active) ==
    [id |-> id, userId |-> h.userId, plateNumber |-> h.plateNumber,
     state |-> h.state, borough |-> h.borough, nickname |-> h.nickname,
     isActive |-> active]

WatchIdle ==
    /\ rows = {}
    /\ nextId = 1
    /\ handlers = EmptyBag
    /\ lastResponse = NoWatchResponse

\* The rows of a user, newest first: orderBy createdAt desc, ids being given
\* in the order of creation
RECURSIVE NewestFirst(_)
NewestFirst(table) ==
    IF table = {} THEN <<>>
    ELSE LET newest == CHOOSE r \in table : \A q \in table : q.id <= r.id
         IN  <<newest>> \o NewestFirst(table \ {newest})

\* prisma.plateWatch.findMany({ where: { userId } })
RowsOfUser(table, userId) == {r \in table : r.userId = userId}

\* Variant of GetPlates without the test of the session
GetPlatesUnchecked(session) ==
    /\ BagCardinality(handlers) < MaxInFlight
    /\ lastResponse' =
         [Responded("GET", 200, "", 1) EXCEPT
            !.plates = NewestFirst(RowsOfUser(rows, session))]
    /\ UNCHANGED <<rows, nextId, handlers, timeVars, normVars, searchVars, pageVars>>

\* GET: the session, findMany
GetPlates(session) ==
    /\ BagCardinality(handlers) < MaxInFlight
    /\ lastResponse' =
         IF session = NoSession THEN Responded("GET", 401, Unauthorized, 0)
         ELSE [Responded("GET", 200, "", 1) EXCEPT
                 !.plates = NewestFirst(RowsOfUser(rows, session))]
    /\ UNCHANGED <<rows, nextId, handlers, timeVars, normVars, searchVars, pageVars>>

\* POST up to the await of create: the session, the body, findUnique
PostFind(session, body) ==
    /\ BagCardinality(handlers) < MaxInFlight
    /\ IF session = NoSession
       THEN lastResponse' = Responded("POST", 401, Unauthorized, 0) /\ UNCHANGED handlers
       ELSE IF ~Truthy(body.plateNumber) \/ ~Truthy(body.state)
       THEN /\ lastResponse' = Responded("POST", 400, PlateAndStateRequired, 0)
            /\ UNCHANGED handlers
       ELSE IF RowsOfKey(rows, session, ToUpperCase(body.plateNumber.s),
                         ToUpperCase(body.state.s)) # {}
       THEN /\ lastResponse' = Responded("POST", 400, AlreadyMonitored, 1)
            /\ UNCHANGED handlers
       ELSE /\ handlers' =
                 Suspend([Handler("POST", session) EXCEPT
                            !.plateNumber = ToUpperCase(body.plateNumber.s),
                            !.state = ToUpperCase(body.state.s),
                            !.borough = Or(body.borough, Null),
                            !.nickname = Or(body.nickname, Null)])
            /\ UNCHANGED lastResponse
    /\ UNCHANGED <<rows, nextId, timeVars, normVars, searchVars, pageVars>>

\* Variant of PostCreate over a table without the unique key
PostCreateUnconstrained(h) ==
    /\ BagIn(h, handlers) /\ h.op = "POST"
    /\ nextId <= MaxIds
    /\ \E active \in BOOLEAN : rows' = rows \cup {NewRow(h, nextId, active)}
    /\ nextId' = nextId + 1
    /\ lastResponse' = Responded("POST", 200, "", 2)
    /\ handlers' = Resume(h)
    /\ UNCHANGED <<timeVars, normVars, searchVars, pageVars>>

\* POST from create on: the insert is rejected by the unique key
\* (userId, plateNumber, state) and the catch block answers 500, or the
\* row is inserted
PostCreate(h) ==
    /\ BagIn(h, handlers) /\ h.op = "POST"
    /\ IF RowsOfKey(rows, h.userId, h.plateNumber, h.state) # {}
       THEN /\ lastResponse' = Responded("POST", 500, FailedToAdd, 2)
            /\ UNCHANGED <<rows, nextId>>
       ELSE /\ nextId <= MaxIds
            /\ \E active \in BOOLEAN : rows' = rows \cup {NewRow(h, nextId, active)}
            /\ nextId' = nextId + 1
            /\ lastResponse' = Responded("POST", 200, "", 2)
    /\ handlers' = Resume(h)
    /\ UNCHANGED <<timeVars, normVars, searchVars, pageVars>>

\* Variant of DeleteFind whose findFirst looks the id up for any user
DeleteFindAnyUser(session, id) ==
    /\ BagCardinality(handlers) < MaxInFlight
    /\ IF session = NoSession
       THEN lastResponse' = Responded("DELETE", 401, Unauthorized, 0) /\ UNCHANGED handlers
       ELSE IF RowsOfId(rows, id) = {}
       THEN lastResponse' = Responded("DELETE", 404, PlateNotFound, 1) /\ UNCHANGED handlers
       ELSE /\ handlers' = Suspend([Handler("DELETE", session) EXCEPT !.id = id])
            /\ UNCHANGED lastResponse
    /\ UNCHANGED <<rows, nextId, timeVars, normVars, searchVars, pageVars>>

\* DELETE up to the await of delete: the session, the id, findFirst
DeleteFind(session, id) ==
    /\ BagCardinality(handlers) < MaxInFlight
    /\ IF session = NoSession
       THEN lastResponse' = Responded("DELETE", 401, Unauthorized, 0) /\ UNCHANGED handlers
       ELSE IF RowsOfIdAndUser(rows, id, session) = {}
       THEN lastResponse' = Responded("DELETE", 404, PlateNotFound, 1) /\ UNCHANGED handlers
       ELSE /\ handlers' = Suspend([Handler("DELETE", session) EXCEPT !.id = id])
            /\ UNCHANGED lastResponse
    /\ UNCHANGED <<rows, nextId, timeVars, normVars, searchVars, pageVars>>

\* DELETE from delete on: a row that is gone makes delete throw
DeleteRow(h) ==
    /\ BagIn(h, handlers) /\ h.op = "DELETE"
    /\ IF RowsOfId(rows, h.id) = {}
       THEN lastResponse' = Responded("DELETE", 500, FailedToRemove, 2) /\ UNCHANGED rows
       ELSE /\ rows' = rows \ RowsOfId(rows, h.id)
            /\ lastResponse' = Responded("DELETE", 200, "", 2)
    /\ handlers' = Resume(h)
    /\ UNCHANGED <<nextId, timeVars, normVars, searchVars, pageVars>>

\* PATCH up to the await of update: the session, the body, the id, findFirst
PatchFind(session, id, isActive) ==
    /\ BagCardinality(handlers) < MaxInFlight
    /\ IF session = NoSession
       THEN lastResponse' = Responded("PATCH", 401, Unauthorized, 0) /\ UNCHANGED handlers
       ELSE IF RowsOfIdAndUser(rows, id, session) = {}
       THEN lastResponse' = Responded("PATCH", 404, PlateNotFound, 1) /\ UNCHANGED handlers
       ELSE /\ handlers' =
                 Suspend([Handler("PATCH", session) EXCEPT
                            !.id = id, !.isActive = isActive])
            /\ UNCHANGED lastResponse
    /\ UNCHANGED <<rows, nextId, timeVars, normVars, searchVars, pageVars>>

\* PATCH from update on: a row that is gone makes update throw
PatchRow(h) ==
    /\ BagIn(h, handlers) /\ h.op = "PATCH"
    /\ IF RowsOfId(rows, h.id) = {}
       THEN lastResponse' = Responded("PATCH", 500, FailedToUpdate, 2) /\ UNCHANGED rows
       ELSE /\ rows' = {IF r.id = h.id THEN [r EXCEPT !.isActive = h.isActive] ELSE r :
                            r \in rows}
            /\ lastResponse' = Responded("PATCH", 200, "", 2)
    /\ handlers' = Resume(h)
    /\ UNCHANGED <<nextId, timeVars, normVars, searchVars, pageVars>>

(***************************************************************************)
(* State machine                                                           *)
(***************************************************************************)
TimeIdle == timeStr = <<>> /\ timeOut = <<>> /\ timePc = "idle"
NormIdle == raw = <<>> /\ normalized = <<>> /\ normPc = "idle"
SearchIdle ==
    /\ req = NoRequest
    /\ pc = "idle"
    /\ apiQuery = <<>>
    /\ dataset = <<>>
    /\ upstream = "none"
    /\ rawViolations = <<>>
    /\ mapped = <<>>
    /\ violations = <<>>
    /\ response = NoResponse

\* The useState initial values of SearchForm
InitialForm ==
    [searchType |-> "plate", licensePlate |-> <<>>, ticketNumber |-> <<>>,
     state |-> <<"N", "Y">>, borough |-> <<>>]

\* The search page after its first render: useState(null), useState(false),
\* useState(null) and no fetch sent; null is the empty sequence and a value
\* v is <<v>>
PageIdle ==
    /\ form = InitialForm
    /\ isLoading = FALSE
    /\ error = <<>>
    /\ searchResult = <<>>
    /\ searches = <<>>

\* The violations route
Init == TimeIdle /\ NormIdle /\ SearchIdle /\ WatchIdle /\ PageIdle

\* Variant of GetStart that rejects a request only when it has no plate
GetStartPlateRequired(r) ==
    /\ pc = "idle"
    /\ req' = r
    /\ IF ~Truthy(r.licensePlate)
       THEN /\ response' = BadRequest
            /\ pc' = "done"
            /\ UNCHANGED apiQuery
       ELSE /\ apiQuery' = BuildQuery(r)
            /\ pc' = "fetching"
            /\ UNCHANGED response
    /\ UNCHANGED <<dataset, upstream, rawViolations, mapped, violations>>
    /\ UNCHANGED <<timeVars, normVars, watchVars, pageVars>>

\* GET up to the await of fetch
GetStart(r) ==
    /\ pc = "idle"
    /\ req' = r
    /\ IF ~Truthy(r.licensePlate) /\ ~Truthy(r.ticketNumber)
       THEN /\ response' = BadRequest
            /\ pc' = "done"
            /\ UNCHANGED apiQuery
       ELSE /\ apiQuery' = BuildQuery(r)
            /\ pc' = "fetching"
            /\ UNCHANGED response
    /\ UNCHANGED <<dataset, upstream, rawViolations, mapped, violations>>
    /\ UNCHANGED <<timeVars, normVars, watchVars, pageVars>>

\* Variant of GetFetchOk whose totalCount counts the records before the
\* borough filter
GetFetchOkCountsFetched(data) ==
    /\ pc = "fetching"
    /\ JsGeq(QueryNumber(apiQuery, "$limit"), 0)
    /\ JsGeq(QueryNumber(apiQuery, "$offset"), 0)
    /\ dataset' = data
    /\ upstream' = "ok"
    /\ rawViolations' = Page(data, QueryNumber(apiQuery, "$limit").val,
                             QueryNumber(apiQuery, "$offset").val)
    /\ mapped' = NormalizeAll(rawViolations')
    /\ violations' = FilterByBorough(mapped', req.borough)
    /\ response' = [SearchResult(req, violations') EXCEPT !.totalCount = Len(mapped')]
    /\ pc' = "done"
    /\ UNCHANGED <<req, apiQuery>>
    /\ UNCHANGED <<timeVars, normVars, watchVars, pageVars>>

\* GET after fetch resolved with an OK response: the endpoint holds the rows
\* data for the query and returns the page the query asks for
GetFetchOk(data) ==
    /\ pc = "fetching"
    /\ JsGeq(QueryNumber(apiQuery, "$limit"), 0)
    /\ JsGeq(QueryNumber(apiQuery, "$offset"), 0)
    /\ dataset' = data
    /\ upstream' = "ok"
    /\ rawViolations' = Page(data, QueryNumber(apiQuery, "$limit").val,
                             QueryNumber(apiQuery, "$offset").val)
    /\ mapped' = NormalizeAll(rawViolations')
    /\ violations' = FilterByBorough(mapped', req.borough)
    /\ response' = SearchResult(req, violations')
    /\ pc' = "done"
    /\ UNCHANGED <<req, apiQuery>>
    /\ UNCHANGED <<timeVars, normVars, watchVars, pageVars>>

\* GET after fetch resolved with a response that is not OK
GetFetchNotOk ==
    /\ pc = "fetching"
    /\ upstream' = "not ok"
    /\ response' = UpstreamError
    /\ pc' = "done"
    /\ UNCHANGED <<req, apiQuery, dataset, rawViolations, mapped, violations>>
    /\ UNCHANGED <<timeVars, normVars, watchVars, pageVars>>

\* GET after fetch, response.json() or the mapping threw: the catch block
GetFetchThrows ==
    /\ pc = "fetching"
    /\ upstream' = "threw"
    /\ response' = CaughtError
    /\ pc' = "done"
    /\ UNCHANGED <<req, apiQuery, dataset, rawViolations, mapped, violations>>
    /\ UNCHANGED <<timeVars, normVars, watchVars, pageVars>>

Next ==
    \/ \E r \in Requests : GetStart(r)
    \/ \E data \in Datasets : GetFetchOk(data)
    \/ GetFetchNotOk
    \/ GetFetchThrows

Spec == Init /\ [][Next]_vars

\* The record mapping applied to one raw record
InitNorm ==
    /\ TimeIdle /\ SearchIdle /\ WatchIdle /\ PageIdle
    /\ raw \in NormRaws
    /\ normalized = <<>>
    /\ normPc = "input"

NormalizeRecord ==
    /\ normPc = "input"
    /\ IF NormalizeRaises(raw)
       THEN normPc' = "threw" /\ UNCHANGED normalized
       ELSE normalized' = Normalize(raw) /\ normPc' = "done"
    /\ UNCHANGED <<raw, timeVars, searchVars, watchVars, pageVars>>

NextNorm == NormalizeRecord

SpecNorm == InitNorm /\ [][NextNorm]_vars

\* ViolationsDisplay rendering the time of one violation
InitTime ==
    /\ NormIdle /\ SearchIdle /\ WatchIdle /\ PageIdle
    /\ timeStr \in Tokens
    /\ timeOut = <<>>
    /\ timePc = "input"

RenderTime ==
    /\ timePc = "input"
    /\ timeOut' = FormatTime(timeStr)
    /\ timePc' = "done"
    /\ UNCHANGED <<timeStr, normVars, searchVars, watchVars, pageVars>>

NextTime == RenderTime

SpecTime == InitTime /\ [][NextTime]_vars

\* The watch-list API serving up to MaxInFlight requests at a time
InitWatch == TimeIdle /\ NormIdle /\ SearchIdle /\ WatchIdle /\ PageIdle

NextWatch ==
    \/ \E session \in Sessions : GetPlates(session)
    \/ \E session \in Sessions, body \in PostBodies : PostFind(session, body)
    \/ \E h \in BagToSet(handlers) : PostCreate(h)
    \/ \E session \in Sessions, id \in Ids : DeleteFind(session, id)
    \/ \E h \in BagToSet(handlers) : DeleteRow(h)
    \/ \E session \in Sessions, id \in Ids, isActive \in BOOLEAN :
            PatchFind(session, id, isActive)
    \/ \E h \in BagToSet(handlers) : PatchRow(h)

SpecWatch == InitWatch /\ [][NextWatch]_vars

(***************************************************************************)
(* Properties of formatTime (SpecTime)                                     *)
(***************************************************************************)
IsDigitString(s) == \A i \in 1..Len(s) : s[i] \in Digits

\* The characters of s that are decimal digits, in order
DigitsOf(s) == SelectSeq(s, LAMBDA c : c \in Digits)

\* String.prototype.padStart(n, '0')
RECURSIVE PadStart(_, _)
PadStart(s, n) == IF Len(s) >= n THEN s ELSE PadStart(<<"0">> \o s, n)

\* "H:MM AM" or "H:MM PM" with H in 1..12 and MM two decimal digits
WellFormedTime(s) ==
    \E h \in 1..12, m1 \in Digits, m2 \in Digits, x \in {"A", "P"} :
        s = NumToStr(h) \o <<":", m1, m2, " ", x, "M">>

\* C1: a token of 1 to 3 digits is formatted as the token left-padded with
\* '0' to 4 digits is, and "730" is formatted as "7:30 AM"
C1_PadWholeToken ==
    (timePc = "done" /\ Len(timeStr) \in 1..3 /\ IsDigitString(timeStr)) =>
        /\ timeOut = FormatTime(PadStart(timeStr, 4))
        /\ (timeStr = <<"7", "3", "0">> =>
                timeOut = <<"7", ":", "3", "0", " ", "A", "M">>)

\* C7: a token that holds a digit is formatted as its digits, taken in
\* order, are; "0730A" and "7:30" are formatted as "7:30 AM"
C7_StripNonDigits ==
    (timePc = "done" /\ DigitsOf(timeStr) # <<>>) =>
        /\ timeOut = FormatTime(DigitsOf(timeStr))
        /\ (timeStr \in {<<"0", "7", "3", "0", "A">>, <<"7", ":", "3", "0">>} =>
                timeOut = <<"7", ":", "3", "0", " ", "A", "M">>)

\* The 12-hour time the claim gives for the four-digit token HHMM
ClockOf(t) ==
    LET hh == 10 * DigitVal(t[1]) + DigitVal(t[2])
        h == IF hh % 12 = 0 THEN 12 ELSE hh % 12
    IN  NumToStr(h) \o <<":", t[3], t[4], " ">>
            \o (IF hh >= 12 THEN <<"P", "M">> ELSE <<"A", "M">>)

\* C8: a four-digit token HHMM is formatted as h:MM with h = HH mod 12, 12
\* for 0, and PM exactly when HH >= 12, for every HH in 00..99
C8_FourDigitClock ==
    (timePc = "done" /\ timeStr \in FourDigitTokens) =>
        /\ timeOut = ClockOf(timeStr)
        /\ (timeStr = <<"1", "4", "3", "0">> =>
                timeOut = <<"2", ":", "3", "0", " ", "P", "M">>)
        /\ (timeStr = <<"0", "0", "0", "0">> =>
                timeOut = <<"1", "2", ":", "0", "0", " ", "A", "M">>)
        /\ (timeStr = <<"1", "2", "0", "0">> =>
                timeOut = <<"1", "2", ":", "0", "0", " ", "P", "M">>)
        /\ (timeStr = <<"9", "9", "0", "0">> =>
                timeOut = <<"3", ":", "0", "0", " ", "P", "M">>)

C8_Witness ==
    /\ timePc = "done"
    /\ timeStr = <<"9", "9", "0", "0">>
    /\ timeOut = <<"3", ":", "0", "0", " ", "P", "M">>

\* C9: the result of formatTime is the token unchanged or a well-formed
\* time string, and the empty token is returned unchanged
C9_UnchangedOrWellFormed ==
    timePc = "done" =>
        /\ (timeOut = timeStr \/ WellFormedTime(timeOut))
        /\ (timeStr = <<>> => timeOut = <<>>)

(***************************************************************************)
(* Properties of the borough filter (Spec)                                 *)
(***************************************************************************)
\* The route answered from an OK upstream response: mapping and filter ran
FilterRan == pc = "done" /\ upstream = "ok"

InSeq(seq, x) == \E j \in 1..Len(seq) : seq[j] = x

CountyOf(v) == v["violation_county"].s

\* The code sets of the five boroughs
CountyCodeTable ==
    [b \in BoroughNames |->
        CASE b = MANHATTAN -> {<<"N", "Y">>, <<"M", "N">>}
          [] b = BROOKLYN -> {<<"K">>, <<"B", "K">>}
          [] b = QUEENS -> {<<"Q">>, <<"Q", "N">>, QUEENS}
          [] b = BRONX -> {<<"B", "X">>}
          [] b = STATEN_ISLAND -> {<<"R">>, <<"S", "T">>}]

\* C2: with a recognized borough a record is kept exactly when its county
\* code, uppercased, is in the code set of the uppercased borough; QUEENS keeps
\* Q, QN and QUEENS in any letter case and drops BX; an empty county code is
\* never kept
C2_KeepIffCountyInCodeSet ==
    FilterRan =>
        LET b == ToUpperCase(req.borough.s)
        IN  b \in BoroughNames =>
                \A i \in 1..Len(mapped) :
                    LET c == ToUpperCase(CountyOf(mapped[i]))
                        kept == InSeq(violations, mapped[i])
                    IN  /\ kept <=> c \in CountyCodeTable[b]
                        /\ (b = QUEENS /\ c \in {<<"Q">>, <<"Q", "N">>, QUEENS}) => kept
                        /\ (b = QUEENS /\ c = <<"B", "X">>) => ~kept
                        /\ CountyOf(mapped[i]) = <<>> => ~kept

C2_Witness ==
    /\ FilterRan
    /\ req.borough = Str(<<"q", "u", "e", "e", "n", "s">>)
    /\ Len(mapped) = 3
    /\ CountyOf(mapped[1]) = <<"q", "n">>
    /\ CountyOf(mapped[2]) = <<"B", "X">>
    /\ CountyOf(mapped[3]) = <<>>
    /\ violations = <<mapped[1]>>

\* C3: with no borough, the empty borough or ALL BOROUGHS in any letter case
\* the filter returns its input unchanged
C3_NoBoroughIsIdentity ==
    (/\ FilterRan
     /\ \/ req.borough = Null
        \/ IsString(req.borough) /\ req.borough.s = <<>>
        \/ IsString(req.borough) /\ ToUpperCase(req.borough.s) = ALL_BOROUGHS)
    => violations = mapped /\ response.violations = mapped

C3_Witness ==
    /\ FilterRan
    /\ req.borough = Str(<<"a", "l", "l", " ", "b", "o", "r", "o", "u", "g", "h", "s">>)
    /\ Len(mapped) = 3
    /\ CountyOf(mapped[1]) = <<"K">>
    /\ CountyOf(mapped[2]) = <<>>
    /\ CountyOf(mapped[3]) = <<"B", "X">>
    /\ violations = mapped

\* A borough string that names none of the five boroughs and is neither
\* empty nor the sentinel
Unrecognized(borough) ==
    /\ IsString(borough)
    /\ borough.s # <<>>
    /\ ToUpperCase(borough.s) # ALL_BOROUGHS
    /\ ToUpperCase(borough.s) \notin BoroughNames

EmptySuccess ==
    /\ violations = <<>>
    /\ response.status = 200
    /\ response.violations = <<>>
    /\ response.totalCount = 0
    /\ "error" \notin response.keys

\* C4 as stated: every unrecognized borough string yields the empty sequence
\* and a successful response
C4_UnrecognizedIsEmpty ==
    (FilterRan /\ Unrecognized(req.borough)) => EmptySuccess

\* C4 amended: an unrecognized borough string that is not blank yields the
\* empty sequence and a successful response; a blank one leaves the input
\* unchanged
C4_NonBlankUnrecognizedIsEmpty ==
    (FilterRan /\ Unrecognized(req.borough)) =>
        IF Trim(req.borough.s) # <<>> THEN EmptySuccess
        ELSE violations = mapped /\ response.status = 200

C4_Witness ==
    /\ FilterRan
    /\ req.borough = Str(<<"A", "T", "L", "A", "N", "T", "I", "S">>)
    /\ Len(mapped) = 3
    /\ CountyOf(mapped[1]) = <<"K">>
    /\ EmptySuccess

\* s is t with some elements left out
RECURSIVE IsSubseq(_, _)
IsSubseq(s, t) ==
    IF s = <<>> THEN TRUE
    ELSE IF t = <<>> THEN FALSE
    ELSE IF Head(s) = Head(t) THEN IsSubseq(Tail(s), Tail(t))
    ELSE IsSubseq(s, Tail(t))

\* C10: the output of the filter is a subsequence of its input
C10_OutputIsSubsequence ==
    FilterRan => IsSubseq(violations, mapped) /\ response.violations = violations

C10_Witness ==
    /\ FilterRan
    /\ BoroughSpecified(req.borough)
    /\ Len(mapped) = 3
    /\ CountyOf(mapped[1]) = <<"Q">>
    /\ CountyOf(mapped[3]) = <<"q", "n">>
    /\ violations = <<mapped[1], mapped[3]>>

(***************************************************************************)
(* Properties of the record mapping (SpecNorm)                             *)
(***************************************************************************)
Absent(v) == v.t = "undefined"
Present(v) == v.t \notin {"undefined", "null"}

\* The string representation of a string or a number
ToStr(v) == IF v.t = "number" THEN NumToStr(v.n) ELSE v.s

HasText(v) == Present(v) /\ ToStr(v) # <<>>

\* C5: every attribute of ParkingViolation is defined and is a string, and
\* an attribute absent under both aliases is the empty string
C5_AllAttributesStrings ==
    normPc = "done" =>
        /\ DOMAIN normalized = ParkingViolationFields
        /\ Cardinality(DOMAIN normalized) = 43
        /\ \A a \in ParkingViolationFields : IsString(normalized[a])
        /\ \A a \in AliasedAttributes :
                (Absent(Get(raw, Aliases[a][1])) /\ Absent(Get(raw, Aliases[a][2])))
                    => normalized[a] = Str(<<>>)

C5_Witness ==
    /\ normPc = "done"
    /\ raw["plate"] = Num(5)
    /\ Absent(raw["violation_county"]) /\ Absent(raw["county"])
    /\ normalized["plate_id"] = Str(<<"5">>)
    /\ normalized["violation_county"] = Str(<<>>)

\* C6 as stated: the primary alias wins whenever it is present, the
\* secondary is used only when the primary is absent, '' only when both are
C6_PrimaryWhenPresent ==
    normPc = "done" =>
        \A a \in AliasedAttributes :
            LET p == Get(raw, Aliases[a][1])
                q == Get(raw, Aliases[a][2])
            IN  /\ Present(p) => normalized[a] = Str(ToStr(p))
                /\ (~Present(p) /\ Present(q)) => normalized[a] = Str(ToStr(q))
                /\ (~Present(p) /\ ~Present(q)) => normalized[a] = Str(<<>>)

\* C6 amended: the primary alias wins whenever its string representation is
\* not empty, else the secondary when its string representation is not
\* empty, else ''
C6_PrimaryWhenNonEmpty ==
    normPc = "done" =>
        \A a \in AliasedAttributes :
            LET p == Get(raw, Aliases[a][1])
                q == Get(raw, Aliases[a][2])
            IN  /\ HasText(p) => normalized[a] = Str(ToStr(p))
                /\ (~HasText(p) /\ HasText(q)) => normalized[a] = Str(ToStr(q))
                /\ (~HasText(p) /\ ~HasText(q)) => normalized[a] = Str(<<>>)
                /\ p = Num(5) => normalized[a] = Str(<<"5">>)

C6_Witness ==
    /\ normPc = "done"
    /\ raw["plate_id"] = Str(<<>>)
    /\ raw["plate"] = Num(5)
    /\ normalized["plate_id"] = Str(<<"5">>)

(***************************************************************************)
(* The route end to end (Spec)                                             *)
(***************************************************************************)
BrooklynParam == Str(<<"B", "r", "o", "o", "k", "l", "y", "n">>)

KingsNewYorkQueens ==
    <<With("county", Str(<<"K">>)), With("county", Str(<<"N", "Y">>)),
      With("county", Str(<<"Q">>))>>

\* C11: the raw records county K, county NY, county Q searched with borough
\* Brooklyn give exactly one record, whose county is K and whose other
\* attributes are all ''; the mapping has run over all three raw records and
\* the filter over the three mapped records
C11_EndToEndBrooklyn ==
    (FilterRan /\ rawViolations = KingsNewYorkQueens /\ req.borough = BrooklynParam)
    => /\ Len(mapped) = 3
       /\ \A i \in 1..3 : DOMAIN mapped[i] = ParkingViolationFields
       /\ CountyOf(mapped[1]) = <<"K">>
       /\ CountyOf(mapped[2]) = <<"N", "Y">>
       /\ CountyOf(mapped[3]) = <<"Q">>
       /\ violations = <<mapped[1]>>
       /\ response.status = 200
       /\ Len(response.violations) = 1
       /\ response.violations[1]["violation_county"] = Str(<<"K">>)
       /\ \A a \in ParkingViolationFields \ {"violation_county"} :
                response.violations[1][a] = Str(<<>>)

C11_Witness ==
    /\ FilterRan
    /\ rawViolations = KingsNewYorkQueens
    /\ req.borough = BrooklynParam
    /\ Len(response.violations) = 1
    /\ response.violations[1]["violation_county"] = Str(<<"K">>)

\* The recognized borough name a borough string spells once uppercased and
\* stripped of surrounding white space
CanonicalBorough(borough) == Trim(ToUpperCase(borough.s))

\* C12: a borough string that differs from a recognized borough name only in
\* letter case or surrounding white space selects the same records as the
\* recognized uppercase name
C12_CaseAndWhitespaceInsensitive ==
    (FilterRan /\ IsString(req.borough) /\ CanonicalBorough(req.borough) \in BoroughNames)
    => violations =
         SelectSeq(mapped,
                   LAMBDA v : ToUpperCase(CountyOf(v))
                                \in CountyCodeTable[CanonicalBorough(req.borough)])

C14_NeverFails ==
    /\ normPc # "threw"
    /\ normPc = "done" =>
        /\ DOMAIN normalized = ParkingViolationFields
        /\ \A a \in ParkingViolationFields : IsString(normalized[a])
        /\ \A a \in AliasedAttributes :
                (~Present(Get(raw, Aliases[a][1])) /\ ~Present(Get(raw, Aliases[a][2])))
                    => normalized[a] = Str(<<>>)

C14_Witness ==
    /\ normPc = "done"
    /\ raw["plate_id"] = Null
    /\ raw["county"] = Num(0)
    /\ Absent(raw["plate"])
    /\ normalized["plate_id"] = Str(<<>>)
    /\ normalized["violation_county"] = Str(<<"0">>)

\* C15: the mapping is idempotent: its output, read as a raw record and
\* mapped again, does not raise and gives the same record
C15_Idempotent ==
    normPc = "done" =>
        /\ ~NormalizeRaises(normalized)
        /\ Normalize(normalized) = normalized

C15_Witness ==
    /\ normPc = "done"
    /\ raw["plate"] = Str(<<"K">>)
    /\ raw["county"] = Num(5)
    /\ normalized["plate_id"] = Str(<<"K">>)
    /\ normalized["violation_county"] = Str(<<"5">>)
    /\ Normalize(normalized)["plate_id"] = Str(<<"K">>)
    /\ Normalize(normalized)["violation_county"] = Str(<<"5">>)

(***************************************************************************)
(* Further properties of the route (Spec)                                  *)
(***************************************************************************)
\* C16: the mapped sequence has the length of the raw sequence, and its
\* i-th element is the mapping of the i-th raw record alone, so the order of
\* the raw records is kept
C16_MapsElementwise ==
    FilterRan =>
        /\ Len(mapped) = Len(rawViolations)
        /\ \A i \in 1..Len(rawViolations) : mapped[i] = Normalize(rawViolations[i])

C16_Witness ==
    /\ FilterRan
    /\ rawViolations =
         <<With("county", Str(<<"Q">>)), With("violation_county", Str(<<>>)),
           With("county", Str(<<"K">>))>>
    /\ Len(mapped) = 3
    /\ CountyOf(mapped[1]) = <<"Q">>
    /\ CountyOf(mapped[2]) = <<>>
    /\ CountyOf(mapped[3]) = <<"K">>

\* The codes listed for a borough name, and the borough names that keep a
\* record
CodesOf(b) == {boroughToCounty[b][i] : i \in 1..Len(boroughToCounty[b])}
KeepingBoroughs(v) == {b \in BoroughNames : KeepViolation(v, Str(b))}

\* C17: no county code is listed for two borough names, so every mapped
\* record is kept for at most one of the five borough names, and a record
\* returned for a recognized borough is kept for that borough alone
C17_CodesDisjoint ==
    /\ DOMAIN boroughToCounty = BoroughNames
    /\ \A b1, b2 \in BoroughNames : b1 # b2 => CodesOf(b1) \cap CodesOf(b2) = {}
    /\ FilterRan =>
        /\ \A i \in 1..Len(mapped) : Cardinality(KeepingBoroughs(mapped[i])) <= 1
        /\ (BoroughSpecified(req.borough) /\ ToUpperCase(req.borough.s) \in BoroughNames)
            => \A j \in 1..Len(violations) :
                    KeepingBoroughs(violations[j]) = {ToUpperCase(req.borough.s)}

C17_Witness ==
    /\ FilterRan
    /\ req.borough = Str(QUEENS)
    /\ Len(mapped) = 3
    /\ CountyOf(mapped[1]) = <<"K">>
    /\ CountyOf(mapped[2]) = <<"Q">>
    /\ CountyOf(mapped[3]) = <<"N", "Y">>
    /\ violations = <<mapped[2]>>
    /\ KeepingBoroughs(mapped[1]) = {BROOKLYN}
    /\ KeepingBoroughs(mapped[2]) = {QUEENS}
    /\ KeepingBoroughs(mapped[3]) = {MANHATTAN}

\* C18: in every successful search response totalCount is the number of
\* records in the returned violations, which are the records left by the
\* borough filter
C18_TotalCountIsLength ==
    response.status = 200 =>
        /\ FilterRan
        /\ response.violations = violations
        /\ response.totalCount = Len(response.violations)

C18_Witness ==
    /\ response.status = 200
    /\ req.borough = BrooklynParam
    /\ Len(mapped) = 3
    /\ CountyOf(mapped[2]) = <<"K">>
    /\ response.violations = <<mapped[2]>>
    /\ response.totalCount = 1

\* C19: a plate search with a recognized borough and no paging parameter
\* returns every violation of the plate whose county code belongs to the
\* borough: every such row of the upstream dataset is among the violations
\* of the response
C19_EveryMatchReturned ==
    (/\ FilterRan
     /\ Truthy(req.licensePlate) /\ ~Truthy(req.ticketNumber)
     /\ req.limit = Null /\ req.offset = Null
     /\ BoroughSpecified(req.borough)
     /\ ToUpperCase(req.borough.s) \in BoroughNames)
    => \A i \in 1..Len(dataset) :
            ToUpperCase(CountyOf(Normalize(dataset[i])))
                    \in CountyCodeTable[ToUpperCase(req.borough.s)]
                => InSeq(response.violations, Normalize(dataset[i]))

(***************************************************************************)
(* Properties of the watch-list API (SpecWatch)                            *)
(***************************************************************************)
\* The key of a row: its user with its plate number and state uppercased
KeyOf(r) == <<r.userId, ToUpperCase(r.plateNumber), ToUpperCase(r.state)>>

\* A POST suspended past findUnique whose user, uppercased plate number and
\* uppercased state are the key of a row
PostOfExistingKey(h) ==
    /\ h.op = "POST"
    /\ \E r \in rows : KeyOf(r) = <<h.userId, h.plateNumber, h.state>>

\* C20: whatever the interleaving of POST, PATCH and DELETE handlers, no two
\* rows have the same user, uppercased plate number and uppercased state,
\* and the create of a POST whose key is the key of a row adds no row and
\* is answered with an error
C20_NoDuplicateRows ==
    /\ [](\A r1, r2 \in rows : KeyOf(r1) = KeyOf(r2) => r1 = r2)
    /\ [][\A h \in BagToSet(handlers) :
            (PostOfExistingKey(h) /\ handlers' = Resume(h))
                => rows' = rows /\ lastResponse' = Responded("POST", 500, FailedToAdd, 2)]_vars

\* Two POSTs for one key have both passed findUnique; one has inserted the
\* row, and the other has just been rejected by the unique key
C20_Witness ==
    /\ lastResponse = Responded("POST", 500, FailedToAdd, 2)
    /\ Cardinality(rows) = 2
    /\ \E r1, r2 \in rows : r1.userId # r2.userId /\ r1.plateNumber = r2.plateNumber

\* A step in which the suspended handler h resumes and responds
Resumes(h) == BagIn(h, handlers) /\ handlers' = Resume(h)

\* C21: the watch list is per user.  GET answers with rows of the session
\* user only; a row is removed or changed only by a DELETE or PATCH of the
\* user the row belongs to; a DELETE or PATCH whose id names no row of the
\* session user is answered 404 and leaves every row unchanged; a PATCH
\* changes nothing but isActive of the row it names
C21_PerUser ==
    /\ [][\A u \in Users :
            GetPlates(u) =>
                /\ lastResponse'.status = 200
                /\ \A i \in 1..Len(lastResponse'.plates) :
                        /\ lastResponse'.plates[i].userId = u
                        /\ lastResponse'.plates[i] \in rows]_vars
    /\ [][\A r \in rows :
            r \notin rows' =>
                \E h \in BagToSet(handlers) :
                    /\ h.op \in {"DELETE", "PATCH"}
                    /\ h.id = r.id /\ h.userId = r.userId
                    /\ Resumes(h)]_vars
    /\ [][\A u \in Users, id \in Ids :
            (/\ RowsOfIdAndUser(rows, id, u) = {}
             /\ DeleteFind(u, id) \/ \E a \in BOOLEAN : PatchFind(u, id, a))
            => /\ lastResponse'.status = 404
               /\ rows' = rows /\ handlers' = handlers]_vars
    /\ [][\A h \in BagToSet(handlers) :
            (h.op = "PATCH" /\ Resumes(h)) =>
                /\ {r.id : r \in rows'} = {r.id : r \in rows}
                /\ \A r \in rows :
                        IF r.id = h.id
                        THEN [r EXCEPT !.isActive = h.isActive] \in rows'
                        ELSE r \in rows']_vars

\* Both users have a row, and a DELETE or PATCH naming a row of the other
\* user has just been answered 404
C21_Witness ==
    /\ lastResponse.op \in {"DELETE", "PATCH"}
    /\ lastResponse.status = 404
    /\ Cardinality(rows) = 2
    /\ \E r1, r2 \in rows : r1.userId # r2.userId

\* A step that serves a request without a session carrying a user id
ServesNoSession ==
    \/ GetPlates(NoSession)
    \/ \E body \in PostBodies : PostFind(NoSession, body)
    \/ \E id \in Ids : DeleteFind(NoSession, id)
    \/ \E id \in Ids, a \in BOOLEAN : PatchFind(NoSession, id, a)

\* C22: a GET, POST, DELETE or PATCH without a session that carries a user
\* id is answered 401 Unauthorized before any call of prisma.plateWatch, and
\* it changes no row and suspends no handler
C22_NoSessionIs401 ==
    /\ [][ServesNoSession =>
            /\ lastResponse'.status = 401
            /\ lastResponse'.error = Unauthorized
            /\ lastResponse'.queries = 0
            /\ lastResponse'.plates = <<>>
            /\ rows' = rows /\ nextId' = nextId /\ handlers' = handlers]_vars
    /\ [](lastResponse.status = 401 => lastResponse.queries = 0)

C22_Witness ==
    /\ lastResponse = Responded("GET", 401, Unauthorized, 0)
    /\ Cardinality(rows) = 2
    /\ handlers # EmptyBag

\* C28: a POST rejected because the session user already has a row with the
\* plate and state is answered 400 'This plate is already being monitored',
\* whether the row is found by findUnique or the insert meets it after
\* another POST of the same key has created it
C28_DuplicateIs400 ==
    /\ [][\A u \in Users, body \in PostBodies :
            (/\ Truthy(body.plateNumber) /\ Truthy(body.state)
             /\ RowsOfKey(rows, u, ToUpperCase(body.plateNumber.s),
                          ToUpperCase(body.state.s)) # {}
             /\ PostFind(u, body))
            => /\ lastResponse'.status = 400
               /\ lastResponse'.error = AlreadyMonitored]_vars
    /\ [][\A h \in BagToSet(handlers) :
            (PostOfExistingKey(h) /\ Resumes(h))
            => /\ lastResponse'.status = 400
               /\ lastResponse'.error = AlreadyMonitored]_vars

(***************************************************************************)
(* Properties of the request handling of the violations route (Spec)       *)
(***************************************************************************)
\* A query parameter that is absent or empty
Blank(v) == v = Null \/ (IsString(v) /\ v.s = <<>>)

\* The keys of the query, in append order
QueryKeys(q) == [i \in 1..Len(q) |-> q[i][1]]

\* C24: a request whose licensePlate and ticketNumber are both absent or
\* empty is answered 400 with an error message, and no query is built or
\* sent upstream for it; any other request is not answered 400
C24_NoKeyIs400 ==
    pc # "idle" =>
        IF Blank(req.licensePlate) /\ Blank(req.ticketNumber)
        THEN /\ pc = "done"
             /\ response.status = 400
             /\ response.error # ""
             /\ response.keys = {"error"}
             /\ apiQuery = <<>>
             /\ upstream = "none"
        ELSE response.status # 400 /\ apiQuery # <<>>

C24_Witness ==
    /\ pc = "done"
    /\ req.licensePlate = Str(<<>>)
    /\ req.ticketNumber = Null
    /\ response.status = 400
    /\ upstream = "none"

\* C25: with a ticket number the query selects by summons_number alone,
\* also when a license plate is given too; otherwise it selects by the
\* uppercased plate and the uppercased state, NY when no state is given
C25_QueryBySearchType ==
    apiQuery # <<>> =>
        IF ~Blank(req.ticketNumber)
        THEN /\ QueryKeys(apiQuery) = <<"summons_number", "$limit", "$offset", "$order">>
             /\ QueryValue(apiQuery, "summons_number") = req.ticketNumber.s
        ELSE /\ QueryKeys(apiQuery)
                    = <<"plate", "registration_state", "$limit", "$offset", "$order">>
             /\ QueryValue(apiQuery, "plate") = ToUpperCase(req.licensePlate.s)
             /\ QueryValue(apiQuery, "registration_state")
                    = IF Blank(req.state) THEN <<"N", "Y">> ELSE ToUpperCase(req.state.s)

C25_Witness ==
    /\ pc = "fetching"
    /\ req.licensePlate = PlateParam
    /\ req.ticketNumber = TicketParam
    /\ QueryKeys(apiQuery) = <<"summons_number", "$limit", "$offset", "$order">>
    /\ QueryValue(apiQuery, "summons_number") = <<"1", "2", "3">>

\* C29: the licensePlate of a 200 response is the key the query selected
\* by: the uppercased plate of a query by plate, the ticket number of a
\* query by summons_number
C29_ResultNamesQueryKey ==
    response.status = 200 =>
        response.licensePlate =
            IF "summons_number" \in {apiQuery[i][1] : i \in 1..Len(apiQuery)}
            THEN QueryValue(apiQuery, "summons_number")
            ELSE QueryValue(apiQuery, "plate")

(***************************************************************************)
(* The search page: SearchForm and the handleSearch of the page, with the  *)
(* violations route answering its fetch                                    *)
(***************************************************************************)
\* What the user types into the two text inputs and selects in the two
\* selects
PlateInputs == {<<>>, <<" ">>, <<" ", "a", "b", " ">>}
TicketInputs == {<<" ">>, <<"1", "2">>}
StateOptions == {<<"N", "Y">>, <<"N", "J">>}
BoroughOptions == {<<>>, QUEENS}

\* The rows the upstream endpoint can hold for a search of the page
PageDatasets ==
    {<<>>, <<With("county", Str(<<"Q">>))>>}

\* err.message of the TypeError a fetch rejects with, by browser
TransportMessages == {"Failed to fetch", "Load failed"}

\* The fallback of errorData.error
FailedToFetchViolations == "Failed to fetch violations"

\* The input of the active search type
ActiveInput(f) == IF f.searchType = "plate" THEN f.licensePlate ELSE f.ticketNumber

\* The disabled attribute of the submit button
SubmitDisabled(f, loading) == loading \/ Trim(ActiveInput(f)) = <<>>

\* The calls of onSearch handleSubmit makes: none, or one with its params
SubmitParams(f) ==
    IF f.searchType = "plate" /\ Trim(f.licensePlate) # <<>>
    THEN << [licensePlate |-> Str(ToUpperCase(Trim(f.licensePlate))),
             ticketNumber |-> Undefined,
             state |-> Str(ToUpperCase(f.state)),
             borough |-> Str(f.borough), limit |-> Num(50), offset |-> Num(0)] >>
    ELSE IF f.searchType = "ticket" /\ Trim(f.ticketNumber) # <<>>
    THEN << [licensePlate |-> Undefined,
             ticketNumber |-> Str(Trim(f.ticketNumber)),
             state |-> Undefined,
             borough |-> Str(f.borough), limit |-> Num(50), offset |-> Num(0)] >>
    ELSE <<>>

\* The query string handleSearch builds, as searchParams.get reads it
RequestOf(params) ==
    [licensePlate |-> IF Truthy(params.licensePlate) THEN params.licensePlate ELSE Null,
     ticketNumber |-> IF Truthy(params.ticketNumber) THEN params.ticketNumber ELSE Null,
     state |-> IF Truthy(params.licensePlate)
               THEN Or(params.state, Str(<<"N", "Y">>)) ELSE Null,
     borough |-> IF Truthy(params.borough) THEN params.borough ELSE Null,
     limit |-> Str(NumToStr(Or(params.limit, Num(50)).n)),
     offset |-> Str(NumToStr(Or(params.offset, Num(0)).n))]

\* A handleSearch awaiting its fetch: answer is <<>> until the route has
\* answered
Search(params) == [params |-> params, request |-> RequestOf(params), answer |-> <<>>]

Pending(i) == searches[i].answer = <<>>

\* The sequence without its i-th element
RemoveAt(seq, i) == SubSeq(seq, 1, i - 1) \o SubSeq(seq, i + 1, Len(seq))

\* response.ok
IsOk(r) == r.status >= 200 /\ r.status <= 299

\* The controls of the form are disabled while isLoading
SetSearchType(t) ==
    /\ ~isLoading
    /\ form' = [form EXCEPT !.searchType = t]
    /\ UNCHANGED <<isLoading, error, searchResult, searches>>
    /\ UNCHANGED <<timeVars, normVars, searchVars, watchVars>>

SetLicensePlate(v) ==
    /\ ~isLoading
    /\ form.searchType = "plate"
    /\ form' = [form EXCEPT !.licensePlate = v]
    /\ UNCHANGED <<isLoading, error, searchResult, searches>>
    /\ UNCHANGED <<timeVars, normVars, searchVars, watchVars>>

SetState(v) ==
    /\ ~isLoading
    /\ form.searchType = "plate"
    /\ form' = [form EXCEPT !.state = v]
    /\ UNCHANGED <<isLoading, error, searchResult, searches>>
    /\ UNCHANGED <<timeVars, normVars, searchVars, watchVars>>

SetTicketNumber(v) ==
    /\ ~isLoading
    /\ form.searchType = "ticket"
    /\ form' = [form EXCEPT !.ticketNumber = v]
    /\ UNCHANGED <<isLoading, error, searchResult, searches>>
    /\ UNCHANGED <<timeVars, normVars, searchVars, watchVars>>

SetBorough(v) ==
    /\ ~isLoading
    /\ form' = [form EXCEPT !.borough = v]
    /\ UNCHANGED <<isLoading, error, searchResult, searches>>
    /\ UNCHANGED <<timeVars, normVars, searchVars, watchVars>>

\* Variant of HandleSubmit that calls onSearch whatever the input holds
HandleSubmitUnguarded ==
    /\ ~isLoading
    /\ Len(searches) < MaxInFlight
    /\ LET params ==
             IF form.searchType = "plate"
             THEN [licensePlate |-> Str(ToUpperCase(Trim(form.licensePlate))),
                   ticketNumber |-> Undefined,
                   state |-> Str(ToUpperCase(form.state)),
                   borough |-> Str(form.borough), limit |-> Num(50), offset |-> Num(0)]
             ELSE [licensePlate |-> Undefined,
                   ticketNumber |-> Str(Trim(form.ticketNumber)),
                   state |-> Undefined,
                   borough |-> Str(form.borough), limit |-> Num(50), offset |-> Num(0)]
       IN  /\ isLoading' = TRUE
           /\ error' = <<>>
           /\ searchResult' = <<>>
           /\ searches' = Append(searches, Search(params))
           /\ UNCHANGED form
    /\ UNCHANGED <<timeVars, normVars, searchVars, watchVars>>

\* Variant of HandleSubmit whose submit button is enabled while isLoading
HandleSubmitWhileLoading ==
    /\ ~SubmitDisabled(form, FALSE)
    /\ Len(searches) < MaxInFlight
    /\ LET call == SubmitParams(form)
       IN  IF call = <<>>
           THEN UNCHANGED pageVars
           ELSE /\ isLoading' = TRUE
                /\ error' = <<>>
                /\ searchResult' = <<>>
                /\ searches' = Append(searches, Search(call[1]))
                /\ UNCHANGED form
    /\ UNCHANGED <<timeVars, normVars, searchVars, watchVars>>

\* The submit event of the form: handleSubmit and, when it calls onSearch,
\* handleSearch up to the await of fetch
HandleSubmit ==
    /\ ~SubmitDisabled(form, isLoading)
    /\ Len(searches) < MaxInFlight
    /\ LET call == SubmitParams(form)
       IN  IF call = <<>>
           THEN UNCHANGED pageVars
           ELSE /\ isLoading' = TRUE
                /\ error' = <<>>
                /\ searchResult' = <<>>
                /\ searches' = Append(searches, Search(call[1]))
                /\ UNCHANGED form
    /\ UNCHANGED <<timeVars, normVars, searchVars, watchVars>>

\* The request of a fetch of the page reaches the route
RouteReceives ==
    \E i \in 1..Len(searches) : Pending(i) /\ GetStart(searches[i].request)

\* The response of the route reaches the fetch it answers, and the route
\* is ready for the next request
RouteAnswers ==
    /\ pc = "done"
    /\ LET served == {i \in 1..Len(searches) : Pending(i) /\ searches[i].request = req}
       IN  IF served = {}
           THEN UNCHANGED searches
           ELSE \E i \in served : searches' = [searches EXCEPT ![i].answer = <<response>>]
    /\ req' = NoRequest
    /\ pc' = "idle"
    /\ apiQuery' = <<>>
    /\ dataset' = <<>>
    /\ upstream' = "none"
    /\ rawViolations' = <<>>
    /\ mapped' = <<>>
    /\ violations' = <<>>
    /\ response' = NoResponse
    /\ UNCHANGED <<form, isLoading, error, searchResult>>
    /\ UNCHANGED <<timeVars, normVars, watchVars>>

\* Variant of FetchSettles that does not test response.ok
FetchSettlesUnchecked(i) ==
    /\ ~Pending(i)
    /\ searchResult' = searches[i].answer
    /\ UNCHANGED error
    /\ isLoading' = FALSE
    /\ searches' = RemoveAt(searches, i)
    /\ UNCHANGED form
    /\ UNCHANGED <<timeVars, normVars, searchVars, watchVars>>

\* Variant of FetchSettles without the finally block
FetchSettlesKeepsLoading(i) ==
    /\ ~Pending(i)
    /\ LET r == searches[i].answer[1]
       IN  IF ~IsOk(r)
           THEN /\ error' = <<IF r.error # "" THEN r.error ELSE FailedToFetchViolations>>
                /\ UNCHANGED searchResult
           ELSE /\ searchResult' = <<r>>
                /\ UNCHANGED error
    /\ UNCHANGED isLoading
    /\ searches' = RemoveAt(searches, i)
    /\ UNCHANGED form
    /\ UNCHANGED <<timeVars, normVars, searchVars, watchVars>>

\* handleSearch after fetch resolved: the body of a response that is not OK
\* is thrown as an Error and caught, the body of an OK response is the
\* search result; finally isLoading is cleared
FetchSettles(i) ==
    /\ ~Pending(i)
    /\ LET r == searches[i].answer[1]
       IN  IF ~IsOk(r)
           THEN /\ error' = <<IF r.error # "" THEN r.error ELSE FailedToFetchViolations>>
                /\ UNCHANGED searchResult
           ELSE /\ searchResult' = <<r>>
                /\ UNCHANGED error
    /\ isLoading' = FALSE
    /\ searches' = RemoveAt(searches, i)
    /\ UNCHANGED form
    /\ UNCHANGED <<timeVars, normVars, searchVars, watchVars>>

\* handleSearch after fetch rejected: the catch block and finally
FetchRejects(i, message) ==
    /\ Pending(i)
    /\ error' = <<message>>
    /\ UNCHANGED searchResult
    /\ isLoading' = FALSE
    /\ searches' = RemoveAt(searches, i)
    /\ UNCHANGED form
    /\ UNCHANGED <<timeVars, normVars, searchVars, watchVars>>

InitPage == Init

NextPage ==
    \/ \E t \in {"plate", "ticket"} : SetSearchType(t)
    \/ \E v \in PlateInputs : SetLicensePlate(v)
    \/ \E v \in StateOptions : SetState(v)
    \/ \E v \in TicketInputs : SetTicketNumber(v)
    \/ \E v \in BoroughOptions : SetBorough(v)
    \/ HandleSubmit
    \/ RouteReceives
    \/ \E data \in PageDatasets : GetFetchOk(data)
    \/ GetFetchNotOk
    \/ GetFetchThrows
    \/ RouteAnswers
    \/ \E i \in 1..Len(searches) : FetchSettles(i)
    \/ \E i \in 1..Len(searches), message \in TransportMessages : FetchRejects(i, message)

SpecPage == InitPage /\ [][NextPage]_vars

\* The route takes up every request sent to it and sends every response;
\* a fetch of the route that is never answered is ended with an error by
\* the timeout of the runtime; the continuation of a settled fetch of the
\* page is run
SpecPageFair ==
    /\ SpecPage
    /\ WF_vars(RouteReceives)
    /\ WF_vars(GetFetchThrows)
    /\ WF_vars(RouteAnswers)
    /\ WF_vars(\E i \in 1..Len(searches) : FetchSettles(i))

(***************************************************************************)
(* Properties of the search page (SpecPage, SpecPageFair)                  *)
(***************************************************************************)
\* A step that starts a search: handleSearch has been called
SearchStarts == Len(searches') > Len(searches)

\* The search a step has started
Started == searches'[Len(searches')]

\* C30: at most one search of the page is in flight, and it is in flight
\* exactly while isLoading; no search starts while isLoading, and a search
\* that settles is the only one in flight, so none started after it
C30_OneSearchInFlight ==
    /\ [](Len(searches) <= 1)
    /\ [](isLoading <=> Len(searches) = 1)
    /\ [][SearchStarts => ~isLoading /\ searches = <<>>]_vars
    /\ [][\A i \in 1..Len(searches), m \in TransportMessages :
            FetchSettles(i) \/ FetchRejects(i, m) => Len(searches) = 1 /\ searches' = <<>>]_vars

C30_Witness ==
    /\ isLoading
    /\ Len(searches) = 1
    /\ ~Pending(1)
    /\ ~SubmitDisabled(form, FALSE)

\* C23: onSearch is invoked only when the input of the active search type
\* is non-blank after trimming, with the trimmed input as its key; a form
\* whose active input is blank or whitespace starts no search
C23_SearchOnlyWhenNonBlank ==
    /\ [][SearchStarts =>
            /\ Trim(ActiveInput(form)) # <<>>
            /\ IF form.searchType = "plate"
               THEN /\ Started.params.licensePlate
                            = Str(ToUpperCase(Trim(form.licensePlate)))
                    /\ Started.params.ticketNumber = Undefined
               ELSE /\ Started.params.ticketNumber = Str(Trim(form.ticketNumber))
                    /\ Started.params.licensePlate = Undefined]_vars
    /\ [][Trim(ActiveInput(form)) = <<>> => searches' = searches \/ form' # form]_vars
    /\ [](\A i \in 1..Len(searches) :
            \/ Truthy(searches[i].params.licensePlate)
            \/ Truthy(searches[i].params.ticketNumber))

C23_Witness ==
    /\ form.searchType = "plate"
    /\ form.licensePlate = <<" ", "a", "b", " ">>
    /\ Len(searches) = 1
    /\ searches[1].params.licensePlate = Str(<<"A", "B">>)

\* C26: when the upstream fetch of the route answers not OK or throws, the
\* route answers 500 with an error and no violations, and the page that
\* receives a 500 shows its error message, holds no search result and is
\* no longer loading
C26_UpstreamFailureIsShown ==
    /\ [][pc = "fetching" /\ upstream' \in {"not ok", "threw"} =>
            /\ response'.status = 500
            /\ response'.error # ""
            /\ "error" \in response'.keys
            /\ "licensePlate" \notin response'.keys
            /\ response'.violations = <<>>
            /\ response'.totalCount = 0]_vars
    /\ [][(upstream \in {"not ok", "threw"} /\ RouteAnswers /\ searches' # searches) =>
            (\E i \in 1..Len(searches) :
                Pending(i) /\ searches'[i].answer = <<response>>)]_vars
    /\ [][\A i \in 1..Len(searches) :
            FetchSettles(i) /\ searches[i].answer[1].status = 500 =>
                /\ error' = <<searches[i].answer[1].error>>
                /\ searchResult' = <<>>
                /\ ~isLoading']_vars

C26_Witness ==
    /\ ~isLoading
    /\ error = <<UpstreamError.error>>
    /\ searchResult = <<>>
    /\ searches = <<>>

\* C27: a step that starts a search leaves isLoading true and error and
\* searchResult null; every search in flight is eventually settled with
\* isLoading false; and when isLoading falls, exactly one of searchResult
\* and error is not null
C27_SearchEnds ==
    /\ [][SearchStarts => isLoading' /\ error' = <<>> /\ searchResult' = <<>>]_vars
    /\ (isLoading ~> (~isLoading /\ searches = <<>>))
    /\ [][isLoading /\ ~isLoading' => (searchResult' # <<>>) # (error' # <<>>)]_vars
    /\ [](~isLoading => ~(searchResult # <<>> /\ error # <<>>))

C27_Witness ==
    /\ ~isLoading
    /\ searchResult # <<>>
    /\ error = <<>>
    /\ searches = <<>>

====
